---- MODULE Spec2Model ----
(***************************************************************************)
(* Model of the backend ledger service (BlockchainService) of the          *)
(* ayurvedic-herb traceability prototype and of the route handlers that    *)
(* drive it.                                                               *)
(*                                                                         *)
(* Modelling conventions                                                   *)
(*  - ledger is this.ledger.transactions.  Every in-memory transaction     *)
(*    carries an extra field obj: the identity of the JavaScript object    *)
(*    its data field points to.  Two transactions with the same obj share  *)
(*    one payload object, so an in-place assignment to that object is seen *)
(*    through both (AssignThrough).                                           *)
(*  - file is the ledger file: missing, corrupt (truncated, half written,  *)
(*    not parseable), or the transaction sequence last serialised into it. *)
(*  - call[c] is one invocation of an async method: call[0] is             *)
(*    initialize(), call[c] for c >= 1 a submitTransaction() invocation.   *)
(*  - microQ is the promise-job (microtask) queue: continuations after an  *)
(*    await on an already settled promise run in FIFO order, and no I/O    *)
(*    completion or request handler runs while it is non-empty.            *)
(*  - SHA-256 is modelled as an injective constructor (CalculateHash).     *)
(*  - Date.now() is clock; the random suffix of a transaction id is a      *)
(*    fresh number (FreshRnd), i.e. ids are taken to be unique.             *)
(***************************************************************************)
EXTENDS Integers, Sequences, FiniteSets, TLC

\* ------------------------------------------------------------------ bounds
SeqMaxLog == 4
CoreMaxLog == 3
MaxClock == 1
MaxCalls == 2
RulesMaxLog == 2
GateMaxLog == 4
ReadMaxLog == 4
FlowMaxLog == 7
MixMaxLog == 3
StartMaxLog == 3
TypesMaxLog == 4
LabMaxLog == 3
SimMaxLog == 5
CountMaxLog == 4

\* ---------------------------------------------------------- basic values
Calls == 1 .. MaxCalls
Writers == 0 .. MaxCalls

\* '0x0000...0000' (part_002:308, part_002:335)
ZeroHash == [literal |-> "0x0000000000000000000000000000000000000000000000000000000000000000"]

\* crypto.createHash('sha256').update(data).digest('hex')
CalculateHash(data) == [sha256 |-> data]

\* `tx_${Date.now()}_${random}`
GenerateTransactionId(now, rnd) == [ts |-> now, rnd |-> rnd]

\* 'tx_genesis_000'
GenesisTxId == [ts |-> 0 - 1, rnd |-> 0]

\* the value of a property the object does not have
Undefined == [undefined |-> TRUE]

Has(d, f) == f \in DOMAIN d

\* d.f === v
PropIs(d, f, v) == Has(d, f) /\ d[f] = v

\* the characters of the species names that requests carry
Chars(species) ==
  CASE species = "Ashwagandha" -> <<"A", "s", "h", "w", "a", "g", "a", "n", "d", "h", "a">>
    [] species = "ASHWAGANDHA" -> <<"A", "S", "H", "W", "A", "G", "A", "N", "D", "H", "A">>
    [] species = "Wild ashwagandha" ->
         <<"W", "i", "l", "d", " ", "a", "s", "h", "w", "a", "g", "a", "n", "d", "h", "a">>
    [] species = "Ashwagandh" -> <<"A", "s", "h", "w", "a", "g", "a", "n", "d", "h">>
    [] species = "Tulsi" -> <<"T", "u", "l", "s", "i">>
    [] OTHER -> <<>>

UpperCase ==
  <<"A", "B", "C", "D", "E", "F", "G", "H", "I", "J", "K", "L", "M",
    "N", "O", "P", "Q", "R", "S", "T", "U", "V", "W", "X", "Y", "Z">>

LowerCase ==
  <<"a", "b", "c", "d", "e", "f", "g", "h", "i", "j", "k", "l", "m",
    "n", "o", "p", "q", "r", "s", "t", "u", "v", "w", "x", "y", "z">>

\* the position of ch in alphabet, 0 when it is not there
IndexIn(alphabet, ch) ==
  IF \E i \in 1 .. Len(alphabet) : alphabet[i] = ch
  THEN CHOOSE i \in 1 .. Len(alphabet) : alphabet[i] = ch
  ELSE 0

\* String.prototype.toLowerCase / toUpperCase
ToLowerCase(str) ==
  [i \in 1 .. Len(str) |->
     IF IndexIn(UpperCase, str[i]) = 0 THEN str[i] ELSE LowerCase[IndexIn(UpperCase, str[i])]]

ToUpperCase(str) ==
  [i \in 1 .. Len(str) |->
     IF IndexIn(LowerCase, str[i]) = 0 THEN str[i] ELSE UpperCase[IndexIn(LowerCase, str[i])]]

\* String.prototype.substring(0, n)
Substring0(str, n) == [i \in 1 .. (IF Len(str) < n THEN Len(str) ELSE n) |-> str[i]]

\* String.prototype.includes
Includes(str, part) ==
  \E k \in 0 .. Len(str) - Len(part) : \A i \in 1 .. Len(part) : str[k + i] = part[i]

\* `BATCH_${species.toUpperCase().substring(0, 3)}_${Date.now()}`
Prefix(species) == Substring0(ToUpperCase(Chars(species)), 3)

BatchIdOf(species, now) == [prefix |-> Prefix(species), ts |-> now]

\* a profile test that compares the name as it was typed
IsAshwagandhaCaseSensitive(species) ==
  Includes(Chars(species), <<"a", "s", "h", "w", "a", "g", "a", "n", "d", "h", "a">>)

\* species.toLowerCase().includes('ashwagandha')
IsAshwagandha(species) ==
  Includes(ToLowerCase(Chars(species)), <<"a", "s", "h", "w", "a", "g", "a", "n", "d", "h", "a">>)

\* ------------------------------------------------------------ validators
\* month >= 10 || month <= 2, for month = new Date(timestamp).getMonth() + 1; a
\* timestamp is its month of the year, or a text that is no date (month NaN: both
\* comparisons are false)
IsValidSeason(timestamp) ==
  Has(timestamp, "month") /\ (timestamp.month >= 10 \/ timestamp.month <= 2)

\* a validator for which a harvest out of season is fatal
ValidateCollectionEventStrictSeason(data) ==
  IF IsAshwagandha(data.species)
     /\ ~(data.gps.lat >= 240000 /\ data.gps.lat <= 300000
          /\ data.gps.lng >= 690000 /\ data.gps.lng <= 780000)
  THEN [valid |-> FALSE,
        reason |-> "GPS coordinates outside valid cultivation region for Ashwagandha",
        logged |-> "geo-fence FAILED"]
  ELSE IF IsAshwagandha(data.species) /\ ~IsValidSeason(data.timestamp)
  THEN [valid |-> FALSE, reason |-> "Harvest outside season", logged |-> "season WARNING"]
  ELSE [valid |-> TRUE, reason |-> "", logged |-> "passed"]

\* coordinates are degrees * 10000; logged is what the validator writes to the console
ValidateCollectionEvent(data) ==
  IF IsAshwagandha(data.species)
     /\ ~(data.gps.lat >= 240000 /\ data.gps.lat <= 300000
          /\ data.gps.lng >= 690000 /\ data.gps.lng <= 780000)
  THEN [valid |-> FALSE,
        reason |-> "GPS coordinates outside valid cultivation region for Ashwagandha",
        logged |-> "geo-fence FAILED"]
  ELSE IF IsAshwagandha(data.species) /\ ~IsValidSeason(data.timestamp)
  THEN [valid |-> TRUE, reason |-> "", logged |-> "season WARNING"]
  ELSE [valid |-> TRUE, reason |-> "", logged |-> "passed"]

\* a validator that lets the moisture band of the status rule (5-25%) through
ValidateQualityTestWideMoisture(data) ==
  IF data.pesticide > 10
  THEN [valid |-> FALSE, reason |-> "Pesticide level exceeds WHO limit (0.1 ppm)"]
  ELSE IF data.heavyMetals # 0 /\ data.heavyMetals > 5
  THEN [valid |-> FALSE, reason |-> "Heavy metals level exceeds WHO limit (0.05 ppm)"]
  ELSE IF data.moisture < 500 \/ data.moisture > 2500
  THEN [valid |-> FALSE, reason |-> "Moisture content outside acceptable range (8-20%)"]
  ELSE [valid |-> TRUE, reason |-> ""]

\* ppm and percent are * 100; heavyMetals 0 is falsy and skips its check
ValidateQualityTest(data) ==
  IF data.pesticide > 10
  THEN [valid |-> FALSE, reason |-> "Pesticide level exceeds WHO limit (0.1 ppm)"]
  ELSE IF data.heavyMetals # 0 /\ data.heavyMetals > 5
  THEN [valid |-> FALSE, reason |-> "Heavy metals level exceeds WHO limit (0.05 ppm)"]
  ELSE IF data.moisture < 800 \/ data.moisture > 2000
  THEN [valid |-> FALSE, reason |-> "Moisture content outside acceptable range (8-20%)"]
  ELSE [valid |-> TRUE, reason |-> ""]

\* a validator that lets every processing step through
ValidateProcessingStepUngated(log, data) == [valid |-> TRUE, reason |-> ""]

ValidateProcessingStep(log, data) ==
  IF \E i \in 1 .. Len(log) :
       log[i].type = "quality_test" /\ PropIs(log[i].data, "batchID", data.batchID)
  THEN [valid |-> TRUE, reason |-> ""]
  ELSE [valid |-> FALSE, reason |-> "Cannot process batch without quality verification"]

ValidateTransaction(log, type, data) ==
  CASE type = "collection" -> ValidateCollectionEvent(data)
    [] type = "quality_test" -> ValidateQualityTest(data)
    [] type = "processing" -> ValidateProcessingStep(log, data)
    [] OTHER -> [valid |-> TRUE, reason |-> ""]

\* the frontend service (src/types/blockchain.ts)
\* a geo-fence that compares the species name as it was typed
ValidateGeoFenceCaseSensitive(gps, species) ==
  IF IsAshwagandhaCaseSensitive(species)
  THEN gps.lat >= 240000 /\ gps.lat <= 300000 /\ gps.lng >= 690000 /\ gps.lng <= 780000
  ELSE TRUE

\* validateGeoFence (blockchain.ts:210-219)
ValidateGeoFence(gps, species) ==
  IF IsAshwagandha(species)
  THEN gps.lat >= 240000 /\ gps.lat <= 300000 /\ gps.lng >= 690000 /\ gps.lng <= 780000
  ELSE TRUE

\* validateSeason (blockchain.ts:225-237)
ValidateSeason(timestamp, species) ==
  IF IsAshwagandha(species) THEN IsValidSeason(timestamp) ELSE TRUE

\* generateHash(JSON.stringify(data)) (blockchain.ts:288-296): a 32-bit digest of
\* the payload alone, so equal payloads get equal hashes
GenerateHash(data) == [hash32 |-> data]

\* a chain that links every transaction to the first one instead of the last
SimGetLastTransactionHashOfFirst(txs) ==
  IF Len(txs) > 0 THEN txs[1].hash ELSE [literal |-> "0x000"]

\* getLastTransactionHash (blockchain.ts:298-302)
SimGetLastTransactionHash(txs) ==
  IF Len(txs) > 0 THEN txs[Len(txs)].hash ELSE [literal |-> "0x000"]

\* the object literal of the frontend submitTransaction (blockchain.ts:144-151)
SimTransaction(txs, type, data, now, rnd) ==
  [id |-> GenerateTransactionId(now, rnd),
   type |-> type,
   data |-> data,
   timestamp |-> now,
   hash |-> GenerateHash(data),
   previousHash |-> SimGetLastTransactionHash(txs)]

\* this.state.transactions after submitTransaction(type, data): lines 144-153 run
\* in one turn, no await between the read of the last hash and the push
SimSubmitted(txs, type, data, now, rnd) ==
  Append(txs, SimTransaction(txs, type, data, now, rnd))

\* initializeSampleData (blockchain.ts:243-282)
SampleCollection ==
  [id |-> "BATCH_ASH_001", species |-> "Ashwagandha",
   gps |-> [lat |-> 269124, lng |-> 757873], timestamp |-> [month |-> 1],
   moisture |-> 1250, farmerId |-> "FARMER_001"]

SampleQuality ==
  [id |-> "TEST_001", batchID |-> "BATCH_ASH_001", pesticide |-> 3, moisture |-> 1250,
   heavyMetals |-> 1, labId |-> "LAB_AQL_001", verified |-> TRUE]

SampleProcessing ==
  [id |-> "PROC_001", batchID |-> "BATCH_ASH_001", drying |-> "completed",
   grinding |-> "completed", packaging |-> "in-progress", processorId |-> "PROC_HWC_001"]

\* the three submitTransaction calls of lines 279-281, made by the constructor
InitializeSampleData ==
  SimSubmitted(
    SimSubmitted(
      SimSubmitted(<<>>, "collection", SampleCollection, 0, 1),
      "quality_test", SampleQuality, 0, 2),
    "processing", SampleProcessing, 0, 3)

\* ------------------------------------------------------------ the ledger
\* a chain that links every transaction to the first one instead of the last
GetLastTransactionHashOfFirst(log) ==
  IF Len(log) = 0 THEN ZeroHash ELSE log[1].hash

GetLastTransactionHash(log) ==
  IF Len(log) = 0 THEN ZeroHash ELSE log[Len(log)].hash

\* the object literal of submitTransaction, lines 74-88
\* ids = <<identity of the payload object, identity of its history array>>
NewTransaction(log, type, data, ids, now, rnd) ==
  [id |-> GenerateTransactionId(now, rnd),
   type |-> type,
   data |-> data,
   timestamp |-> now,
   hash |-> CalculateHash([json |-> data, suffix |-> GenerateTransactionId(now, rnd)]),
   previousHash |-> GetLastTransactionHash(log),
   obj |-> ids[1],
   hist |-> ids[2]]

\* a genesis block stamped with a fixed date that lies ahead
GenesisTransactionFixedDate(now, obj) ==
  [id |-> GenesisTxId,
   type |-> "genesis",
   data |-> [message |-> "SIH25027 Traceability Chain Genesis Block", created |-> now],
   timestamp |-> MaxClock,
   hash |-> CalculateHash([text |-> "genesis_block_sih25027"]),
   previousHash |-> ZeroHash,
   obj |-> obj,
   hist |-> obj]

\* a genesis block hashed like any other transaction, creation time included
GenesisTransactionHashed(now, obj) ==
  [id |-> GenesisTxId,
   type |-> "genesis",
   data |-> [message |-> "SIH25027 Traceability Chain Genesis Block", created |-> now],
   timestamp |-> now,
   hash |-> CalculateHash([json |-> [message |-> "SIH25027 Traceability Chain Genesis Block",
                                     created |-> now],
                           suffix |-> GenesisTxId]),
   previousHash |-> ZeroHash,
   obj |-> obj,
   hist |-> obj]

GenesisTransaction(now, obj) ==
  [id |-> GenesisTxId,
   type |-> "genesis",
   data |-> [message |-> "SIH25027 Traceability Chain Genesis Block", created |-> now],
   timestamp |-> now,
   hash |-> CalculateHash([text |-> "genesis_block_sih25027"]),
   previousHash |-> ZeroHash,
   obj |-> obj,
   hist |-> obj]

\* JSON.stringify of one transaction: the values, without object identity
StringifyTx(tx) ==
  [id |-> tx.id, type |-> tx.type, data |-> tx.data, timestamp |-> tx.timestamp,
   hash |-> tx.hash, previousHash |-> tx.previousHash]

\* JSON.stringify(this.ledger): the transactions in order, by value
Stringify(log) == [i \in 1 .. Len(log) |-> StringifyTx(log[i])]

\* JSON.parse(data): every transaction gets a payload object of its own
Parse(txs) ==
  [i \in 1 .. Len(txs) |->
     [id |-> txs[i].id, type |-> txs[i].type, data |-> txs[i].data,
      timestamp |-> txs[i].timestamp, hash |-> txs[i].hash,
      previousHash |-> txs[i].previousHash, obj |-> i, hist |-> i]]

FileMissing == [state |-> "missing", txs |-> <<>>]
FileCorrupt == [state |-> "corrupt", txs |-> <<>>]
FileOf(snap) == [state |-> "ok", txs |-> snap]


\* ------------------------------------------------------------ provenance
Null == [null |-> TRUE]

\* the filter of getProvenance, lines 235-240
Matches(tx, batchID) ==
  IF tx.type = "collection"
  THEN PropIs(tx.data, "id", batchID)
  ELSE PropIs(tx.data, "batchID", batchID)

\* positions of the transactions kept by the filter
MatchingIdx(log, batchID) == {i \in 1 .. Len(log) : Matches(log[i], batchID)}

Min(S) == CHOOSE x \in S : \A y \in S : x <= y

Max(S) == CHOOSE x \in S : \A y \in S : x >= y

\* transactions.find(tx => tx.type === type): the first match, 0 for undefined
FindIdx(log, batchID, type) ==
  IF \E i \in MatchingIdx(log, batchID) : log[i].type = type
  THEN Min({i \in MatchingIdx(log, batchID) : log[i].type = type})
  ELSE 0

DataAt(log, i) == IF i = 0 THEN Null ELSE log[i].data

\* generateQRData: `${baseUrl}/api/customer/batch/${batchID}`
GenerateQRData(batchID) == [url |-> "/api/customer/batch/", batchID |-> batchID]

\* a bundle whose isVerified also asks for a quality test that passed
GetProvenanceGatedOnPass(log, batchID, now) ==
  IF MatchingIdx(log, batchID) = {}
  THEN Null
  ELSE [batchID |-> batchID,
        farmer |-> DataAt(log, FindIdx(log, batchID, "collection")),
        lab |-> DataAt(log, FindIdx(log, batchID, "quality_test")),
        processor |-> DataAt(log, FindIdx(log, batchID, "processing")),
        qrCode |-> GenerateQRData(batchID),
        isVerified |-> (FindIdx(log, batchID, "quality_test") # 0
                        /\ PropIs(DataAt(log, FindIdx(log, batchID, "quality_test")),
                                  "verified", TRUE)
                        /\ FindIdx(log, batchID, "processing") # 0),
        lastUpdated |-> now,
        blockchainHash |-> IF FindIdx(log, batchID, "collection") = 0
                           THEN Null
                           ELSE log[FindIdx(log, batchID, "collection")].hash,
        transactionCount |-> Cardinality(MatchingIdx(log, batchID))]

\* a bundle that counts only the transactions it selected
GetProvenanceCountSelected(log, batchID, now) ==
  IF MatchingIdx(log, batchID) = {}
  THEN Null
  ELSE [batchID |-> batchID,
        farmer |-> DataAt(log, FindIdx(log, batchID, "collection")),
        lab |-> DataAt(log, FindIdx(log, batchID, "quality_test")),
        processor |-> DataAt(log, FindIdx(log, batchID, "processing")),
        qrCode |-> GenerateQRData(batchID),
        isVerified |-> (FindIdx(log, batchID, "quality_test") # 0
                        /\ FindIdx(log, batchID, "processing") # 0),
        lastUpdated |-> now,
        blockchainHash |-> IF FindIdx(log, batchID, "collection") = 0
                           THEN Null
                           ELSE log[FindIdx(log, batchID, "collection")].hash,
        transactionCount |->
          Cardinality({FindIdx(log, batchID, t) :
                         t \in {"collection", "quality_test", "processing"}} \ {0})]

GetProvenance(log, batchID, now) ==
  IF MatchingIdx(log, batchID) = {}
  THEN Null
  ELSE [batchID |-> batchID,
        farmer |-> DataAt(log, FindIdx(log, batchID, "collection")),
        lab |-> DataAt(log, FindIdx(log, batchID, "quality_test")),
        processor |-> DataAt(log, FindIdx(log, batchID, "processing")),
        qrCode |-> GenerateQRData(batchID),
        isVerified |-> (FindIdx(log, batchID, "quality_test") # 0
                        /\ FindIdx(log, batchID, "processing") # 0),
        lastUpdated |-> now,
        blockchainHash |-> IF FindIdx(log, batchID, "collection") = 0
                           THEN Null
                           ELSE log[FindIdx(log, batchID, "collection")].hash,
        transactionCount |-> Cardinality(MatchingIdx(log, batchID))]

\* batchID has a collection transaction in log
Collected(log, batchID) ==
  \E i \in 1 .. Len(log) : log[i].type = "collection" /\ PropIs(log[i].data, "id", batchID)

\* log holds a transaction of the given type whose payload names batchID
Recorded(log, batchID, type) ==
  \E i \in 1 .. Len(log) : log[i].type = type /\ PropIs(log[i].data, "batchID", batchID)

\* a completeness test that is content with any processing record
IsProcessingCompleteAnyRecord(processing) == processing # Null

\* isProcessingComplete (customer.js:781-787)
IsProcessingComplete(processing) ==
  /\ processing # Null
  /\ PropIs(processing, "drying", "completed")
  /\ PropIs(processing, "grinding", "completed")
  /\ PropIs(processing, "packaging", "completed")

\* ----------------------------------------------------------------- state
VARIABLES ledger, file, call, microQ, clock, durable

vars == <<ledger, file, call, microQ, clock, durable>>

NoTx ==
  [id |-> [ts |-> 0 - 2, rnd |-> 0], type |-> "none", data |-> Undefined,
   timestamp |-> 0, hash |-> ZeroHash, previousHash |-> ZeroHash, obj |-> 0, hist |-> 0]

NoResult == [status |-> "NONE"]

\* a receipt that reports the chaining hash in place of the transaction's own
CommittedWithChainHash(tx) ==
  [status |-> "COMMITTED", transactionId |-> tx.id, hash |-> tx.previousHash,
   timestamp |-> tx.timestamp]

Committed(tx) ==
  [status |-> "COMMITTED", transactionId |-> tx.id, hash |-> tx.hash,
   timestamp |-> tx.timestamp]

Msg(text) == [text |-> text]

Failure(code, message) == [status |-> "ERROR", code |-> code, message |-> message]

IdleCall ==
  [pc |-> "idle", op |-> "none", tx |-> NoTx, valid |-> FALSE, reason |-> "",
   snap |-> <<>>, ovl |-> FALSE, result |-> NoResult, ref |-> <<0, 0>>, held |-> Null,
   pos |-> 0, arg |-> Null]

\* a call that has ended: what its caller gets, the transaction it had built, and
\* where it pushed it (0: nowhere)
Ended(cl, pc, result) ==
  [IdleCall EXCEPT !.pc = pc, !.op = cl.op, !.result = result, !.pos = cl.pos,
                   !.tx = cl.tx]

\* initialize() as called by server.js at process start, waiting for its file read
StartingInit == [IdleCall EXCEPT !.pc = "read", !.op = "initialize"]

\* the calls once every caller has taken the outcome of its ended call: an ended
\* submitTransaction slot is free again from the next step on
Live ==
  [w \in Writers |->
     IF w \in Calls /\ call[w].pc \in {"committed", "failed"} THEN IdleCall ELSE call[w]]

InFlight(c) == call[c].pc \in {"validating", "qr_io", "saving", "writing"}

\* the random part of a new transaction id: a number no known transaction carries
RndsOf(txs) == {txs[i].id.rnd : i \in 1 .. Len(txs)}

\* the least positive number outside S
Unused(S) == Min({n \in 1 .. Cardinality(S) + 1 : n \notin S})

FreshRnd ==
  Unused(RndsOf(ledger) \cup RndsOf(file.txs)
          \cup {call[c].tx.id.rnd : c \in {d \in Calls : InFlight(d)}}
          \cup UNION {RndsOf(call[w].snap) : w \in {d \in Writers : InFlight(d)}})

\* the identity of a newly created payload object
FreshObj ==
  Unused({ledger[i].obj : i \in 1 .. Len(ledger)}
          \cup {ledger[i].hist : i \in 1 .. Len(ledger)}
          \cup {call[c].tx.obj : c \in {d \in Calls : InFlight(d)}}
          \cup {call[c].tx.hist : c \in {d \in Calls : InFlight(d)}}
          \cup {call[c].ref[1] : c \in {d \in Calls : InFlight(d)}}
          \cup {call[c].ref[2] : c \in {d \in Calls : InFlight(d)}})

\* a new object with a new history array
Own(n) == <<n, n>>

Init ==
  /\ ledger = <<>>
  /\ file = FileMissing
  /\ call = [w \in Writers |-> IF w = 0 THEN StartingInit ELSE IdleCall]
  /\ microQ = <<>>
  /\ clock = 0
  /\ durable = <<>>


\* --------------------------------------------------------- submitTransaction
\* lines 69-91: build the transaction, run the validator, suspend at the await
StartedCall(log, op, type, data, ids, now, rnd) ==
  [IdleCall EXCEPT
     !.pc = "validating",
     !.op = op,
     !.tx = NewTransaction(log, type, data, ids, now, rnd),
     !.valid = ValidateTransaction(log, type, data).valid,
     !.reason = ValidateTransaction(log, type, data).reason]

\* a continuation that serialises the ledger before it pushes the transaction
ResumedCallSaveFirst(log, cl) ==
  IF cl.valid
  THEN [cl EXCEPT !.pc = "saving", !.snap = Stringify(log), !.pos = Len(log) + 1]
  ELSE Ended(cl, "failed", Failure("validation", Msg(cl.reason)))

\* lines 92-98 for a call that resumes on log: throw, or push and start to save
ResumedCall(log, cl) ==
  IF cl.valid
  THEN [cl EXCEPT !.pc = "saving", !.snap = Stringify(Append(log, cl.tx)),
                  !.pos = Len(log) + 1]
  ELSE Ended(cl, "failed", Failure("validation", Msg(cl.reason)))

\* a continuation that pushes before it looks at the validation result
ResumedLogPushFirst(log, cl) == Append(log, cl.tx)

\* a push of the transaction before its hash has been filled in
ResumedLogHashLater(log, cl) ==
  IF cl.valid THEN Append(log, [cl.tx EXCEPT !.hash = Undefined]) ELSE log

\* this.ledger.transactions after lines 92-97
ResumedLog(log, cl) == IF cl.valid THEN Append(log, cl.tx) ELSE log

\* room for one more push in a log of at most max entries
HasRoom(max) ==
  Len(ledger) + Cardinality({d \in Calls : call[d].pc \in {"validating", "qr_io"}}) < max

\* a job queue that runs the newest continuation first
EnqueueFront(q, c) == <<c>> \o q

\* the await of line 91 on a settled promise: the continuation goes to the end of
\* the promise-job queue
Enqueue(q, c) == Append(q, c)

\* a caller invokes submitTransaction(type, data) with a payload object of its own
SubmitStart(c, type, data) ==
  /\ ~InFlight(c)
  /\ call' = [Live EXCEPT
       ![c] = StartedCall(ledger, "submit", type, data, Own(FreshObj), clock, FreshRnd)]
  /\ microQ' = Enqueue(microQ, c)
  /\ UNCHANGED <<ledger, file, clock, durable>>

\* the continuation after `await this.validateTransaction(transaction)`
SubmitResume(c) ==
  /\ microQ # <<>>
  /\ c = Head(microQ)
  /\ call[c].pc = "validating"
  /\ ledger' = ResumedLog(ledger, call[c])
  /\ call' = [Live EXCEPT ![c] = ResumedCall(ledger, call[c])]
  /\ microQ' = Tail(microQ)
  /\ UNCHANGED <<file, clock, durable>>

\* a whole request handler turn: the call and its continuation with nothing between
HandlerSubmit(c, log, op, type, data, ids) ==
  /\ ledger' = ResumedLog(log, StartedCall(log, op, type, data, ids, clock, FreshRnd))
  /\ call' = [Live EXCEPT
       ![c] = ResumedCall(log, StartedCall(log, op, type, data, ids, clock, FreshRnd))]

\* a handler that answers without calling the service
Respond(c, op, code, message) ==
  /\ call' = [Live EXCEPT
       ![c] = [IdleCall EXCEPT !.pc = "failed", !.op = op,
                               !.result = Failure(code, Msg(message))]]
  /\ UNCHANGED ledger

\* ------------------------------------------------------------------ saveLedger
Writing == {w \in Writers : call[w].pc = "writing"}

DonePc(w) == IF w = 0 THEN "done" ELSE "committed"

DoneResult(w) == IF w = 0 THEN NoResult ELSE Committed(call[w].tx)

\* fs.writeFile opens the file for writing, which truncates it
WriteOpen(w) ==
  /\ microQ = <<>>
  /\ call[w].pc = "saving"
  /\ file' = FileCorrupt
  /\ durable' = durable
  /\ call' = [x \in Writers |->
       IF x = w THEN [call[x] EXCEPT !.pc = "writing", !.ovl = (Writing # {})]
       ELSE IF x \in Writing THEN [call[x] EXCEPT !.ovl = TRUE]
       ELSE Live[x]]
  /\ UNCHANGED <<ledger, microQ, clock>>

\* what the file holds when a write of snap ends: snap, or a mix of two writes
\* when another write of the same file was open at the same time
Written(snap, ovl) == IF ovl THEN {FileOf(snap), FileCorrupt} ELSE {FileOf(snap)}

\* the write ends; saveLedger returns and its caller reports success
WriteDone(w) ==
  /\ microQ = <<>>
  /\ call[w].pc = "writing"
  /\ file' \in Written(call[w].snap, call[w].ovl)
  /\ durable' = IF file'.state = "ok" THEN file'.txs ELSE durable
  /\ call' = [Live EXCEPT ![w] = Ended(call[w], DonePc(w), DoneResult(w))]
  /\ UNCHANGED <<ledger, microQ, clock>>

\* fs.writeFile rejects, before or after the file was opened; saveLedger rethrows
WriteFail(w) ==
  /\ microQ = <<>>
  /\ call[w].pc \in {"saving", "writing"}
  /\ call' = [Live EXCEPT
       ![w] = Ended(call[w], "failed", Failure("storage", Msg("write failed")))]
  /\ UNCHANGED <<ledger, file, microQ, clock, durable>>

\* ------------------------------------------------------------------ initialize
\* this.ledger.transactions after lines 45-53 of initialize(), for a service whose
\* log is log and which read f from the ledger file
InitializedLedger(log, f, now, obj) ==
  IF f.state = "ok" THEN Parse(f.txs) ELSE Append(log, GenesisTransaction(now, obj))

\* lines 45-55: the file read ends; load the ledger, or add a genesis block and save
InitRead ==
  /\ microQ = <<>>
  /\ call[0].pc = "read"
  /\ ledger' = InitializedLedger(ledger, file, clock, FreshObj)
  /\ IF file.state = "ok"
     THEN /\ call' = [x \in Writers |->
               IF x = 0 THEN Ended(call[0], "done", NoResult)
               ELSE [Live[x] EXCEPT !.ref = <<0, 0>>]]
     ELSE /\ call' = [Live EXCEPT
               ![0].pc = "saving",
               ![0].snap = Stringify(InitializedLedger(ledger, file, clock, FreshObj))]
  /\ UNCHANGED <<file, microQ, clock, durable>>

\* the process stops; memory is lost, the file stays as it is; the server starts again
Crash ==
  /\ ledger' = <<>>
  /\ call' = [w \in Writers |-> IF w = 0 THEN StartingInit ELSE IdleCall]
  /\ microQ' = <<>>
  /\ UNCHANGED <<file, clock, durable>>

Tick ==
  /\ clock < MaxClock
  /\ clock' = clock + 1
  /\ call' = Live
  /\ UNCHANGED <<ledger, file, microQ, durable>>


\* ------------------------------------------------------------- request handlers
\* obj[f] = v on a JavaScript object: sets the property, adding it when absent
SetProp(d, f, v) == [g \in DOMAIN d \cup {f} |-> IF g = f THEN v ELSE d[g]]

\* a request handler starts: no promise job is pending and a slot is free
HandlerReady(c) ==
  /\ microQ = <<>>
  /\ ~InFlight(c)

\* POST /api/farmer/upload (part_001:350-399)
FarmerUpload(c, in) ==
  /\ HandlerReady(c)
  /\ HandlerSubmit(c, ledger, "farmer-upload", "collection",
       [id |-> BatchIdOf(in.species, clock), species |-> in.species, gps |-> in.gps,
        timestamp |-> [month |-> in.month]],
       Own(FreshObj))
  /\ UNCHANGED <<file, microQ, clock, durable>>

\* determineTestStatus (part_001:233-276); values are * 100
TestWarnings(t) ==
  (IF t.pesticide > 10 THEN <<"pesticide">> ELSE <<>>)
  \o (IF Has(t, "heavyMetals") /\ t.heavyMetals > 5
      THEN <<"heavyMetals">> ELSE <<>>)
  \o (IF t.moisture < 800 \/ t.moisture > 2000 THEN <<"moisture">> ELSE <<>>)

\* a status rule for which any moisture outside 8-20% fails the test
TestPassedStrictMoisture(t) ==
  /\ ~(t.pesticide > 10)
  /\ ~(Has(t, "heavyMetals") /\ t.heavyMetals > 5)
  /\ ~(t.moisture < 800 \/ t.moisture > 2000)

TestPassed(t) ==
  /\ ~(t.pesticide > 10)
  /\ ~(Has(t, "heavyMetals") /\ t.heavyMetals > 5)
  /\ ~((t.moisture < 800 \/ t.moisture > 2000) /\ (t.moisture < 500 \/ t.moisture > 2500))

DetermineTestStatus(t) ==
  [passed |-> TestPassed(t),
   status |-> IF TestPassed(t) /\ Len(TestWarnings(t)) = 0 THEN "PASSED"
              ELSE IF TestPassed(t) THEN "PASSED_WITH_WARNINGS"
              ELSE "FAILED",
   warnings |-> TestWarnings(t)]

\* the qualityTest object of the lab route (part_001:96-119)
QualityTestOf(v) ==
  [batchID |-> v.batchID,
   pesticide |-> v.pesticide,
   moisture |-> v.moisture,
   heavyMetals |-> IF Has(v, "heavyMetals") THEN v.heavyMetals ELSE 0,
   verified |-> DetermineTestStatus(v).passed,
   status |-> DetermineTestStatus(v).status,
   warnings |-> DetermineTestStatus(v).warnings]

\* POST /api/lab/upload (part_001:70-146)
LabUpload(c, v) ==
  /\ HandlerReady(c)
  /\ IF GetProvenance(ledger, v.batchID, clock) = Null
        \/ GetProvenance(ledger, v.batchID, clock).farmer = Null
     THEN Respond(c, "lab-upload", "404", "Batch not found")
     ELSE HandlerSubmit(c, ledger, "lab-upload", "quality_test", QualityTestOf(v), Own(FreshObj))
  /\ UNCHANGED <<file, microQ, clock, durable>>

\* provenance.lab?.verified
LabVerified(prov) == prov.lab # Null /\ PropIs(prov.lab, "verified", TRUE)

\* the record update-status starts from when the batch has none (customer.js:571-581)
NewProcessing(batchID, now) ==
  [batchID |-> batchID, drying |-> "pending", grinding |-> "pending",
   packaging |-> "pending", processDate |-> now, history |-> <<>>]

\* a route without the stage-order check
PreviousStepUnchecked(step) == "none"

\* stepOrder[currentStepIndex - 1], "none" for the first step
PreviousStep(step) ==
  CASE step = "grinding" -> "drying"
    [] step = "packaging" -> "grinding"
    [] OTHER -> "none"

HistoryOf(d) == IF Has(d, "history") THEN d.history ELSE <<>>

\* customer.js:598-611: set the step, stamp the record, push onto its history
Updated(d, step, status, now) ==
  SetProp(SetProp(SetProp(d, step, status), "lastUpdated", now),
          "history", Append(HistoryOf(d), [step |-> step, status |-> status]))

\* the ledger after the handler assigned to the record it got from getProvenance:
\* every transaction holding that object, and every one sharing its history array
AssignThrough(log, o, h, newData) ==
  [i \in 1 .. Len(log) |->
     IF log[i].obj = o THEN [log[i] EXCEPT !.data = newData]
     ELSE IF log[i].hist = h /\ "history" \in DOMAIN log[i].data
     THEN [log[i] EXCEPT !.data = SetProp(@, "history", newData.history)]
     ELSE log[i]]

\* POST /api/processor/update-status (customer.js:537-627)
UpdateStatus(c, batchID, step, status) ==
  /\ HandlerReady(c)
  /\ LET prov == GetProvenance(ledger, batchID, clock)
         p == FindIdx(ledger, batchID, "processing")
         cur == IF p = 0 THEN NewProcessing(batchID, clock) ELSE ledger[p].data
     IN IF prov = Null
        THEN Respond(c, "update-status", "404", "Batch not found")
        ELSE IF ~LabVerified(prov)
        THEN Respond(c, "update-status", "400",
                     "Cannot process batch without quality verification")
        ELSE IF PreviousStep(step) # "none"
                /\ ~PropIs(cur, PreviousStep(step), "completed")
        THEN /\ call' = [Live EXCEPT
                  ![c] = [IdleCall EXCEPT
                     !.pc = "failed", !.op = "update-status",
                     !.result = Failure("400",
                        [text |-> "Cannot start step before completing previous",
                         step |-> step, previous |-> PreviousStep(step)])]]
             /\ UNCHANGED ledger
        ELSE IF p = 0
        THEN HandlerSubmit(c, ledger, "update-status", "processing",
                           Updated(cur, step, status, clock), Own(FreshObj))
        ELSE HandlerSubmit(c,
               AssignThrough(ledger, ledger[p].obj, ledger[p].hist,
                             Updated(cur, step, status, clock)),
               "update-status", "processing", Updated(cur, step, status, clock),
               <<ledger[p].obj, ledger[p].hist>>)
  /\ UNCHANGED <<file, microQ, clock, durable>>


\* the processing record a generate-qr handler holds, read through its reference
Held(cl) ==
  IF \E i \in 1 .. Len(ledger) : ledger[i].obj = cl.ref[1]
  THEN ledger[CHOOSE i \in 1 .. Len(ledger) : ledger[i].obj = cl.ref[1]].data
  ELSE cl.held

\* POST /api/processor/generate-qr up to its first file operation (customer.js:635-673)
GenerateQR(c, batchID) ==
  /\ HandlerReady(c)
  /\ LET prov == GetProvenance(ledger, batchID, clock)
         p == FindIdx(ledger, batchID, "processing")
     IN IF prov = Null
        THEN Respond(c, "generate-qr", "404", "Batch not found")
        ELSE IF ~IsProcessingComplete(prov.processor)
        THEN Respond(c, "generate-qr", "400",
                     "Cannot generate QR code for incomplete processing")
        ELSE /\ call' = [Live EXCEPT
                  ![c] = [IdleCall EXCEPT
                     !.pc = "qr_io", !.op = "generate-qr",
                     !.ref = <<ledger[p].obj, ledger[p].hist>>,
                     !.held = ledger[p].data]]
             /\ UNCHANGED ledger
  /\ UNCHANGED <<file, microQ, clock, durable>>

\* the rest of generate-qr, after the QR image is on disk (customer.js:675-711):
\* a copy of the processing record as it is now, with the QR fields added
GenerateQRSubmit(c) ==
  /\ microQ = <<>>
  /\ call[c].pc = "qr_io"
  /\ HandlerSubmit(c, ledger, "generate-qr", "processing",
       SetProp(SetProp(Held(call[c]), "qrCode", [batchID |-> Held(call[c]).batchID,
                                                 ts |-> clock]),
               "qrGeneratedAt", clock),
       <<FreshObj, call[c].ref[2]>>)
  /\ UNCHANGED <<file, microQ, clock, durable>>

\* calculateVerificationScore (customer.js:366-405)
CalculateVerificationScore(prov) ==
  LET score == (IF prov.farmer # Null THEN 25 ELSE 0)
               + (IF LabVerified(prov) THEN 35 ELSE 0)
               + (IF IsProcessingComplete(prov.processor) THEN 25 ELSE 0)
               + (IF prov.processor # Null /\ Has(prov.processor, "qrCode") THEN 15 ELSE 0)
  IN [score |-> score,
      status |-> IF score >= 90 THEN "Fully Verified"
                 ELSE IF score >= 70 THEN "Well Verified"
                 ELSE IF score >= 50 THEN "Partially Verified"
                 ELSE IF score >= 25 THEN "Basic Verification"
                 ELSE "Unverified"]

\* obj.f, undefined when the object has no such property
Get(d, f) == IF Has(d, f) THEN d[f] ELSE Undefined

\* GET /api/customer/batch/:id (customer.js:46-172): the answer's verification and
\* processing parts, Null for the 404 answer
CustomerBatch(log, id, now) ==
  IF GetProvenance(log, id, now) = Null
  THEN Null
  ELSE [batchID |-> id,
        verification |-> CalculateVerificationScore(GetProvenance(log, id, now)),
        processing |->
          IF GetProvenance(log, id, now).processor = Null
          THEN Null
          ELSE [steps |-> [st \in {"drying", "grinding", "packaging"} |->
                             Get(GetProvenance(log, id, now).processor, st)],
                qrCode |-> Get(GetProvenance(log, id, now).processor, "qrCode"),
                history |-> HistoryOf(GetProvenance(log, id, now).processor)],
        isComplete |-> GetProvenance(log, id, now).isVerified]

\* a caller awaits getProvenance(batchID) and keeps the bundle (part_002:233-270)
ReadFirst(c, batchID) ==
  /\ ~InFlight(c)
  /\ call' = [Live EXCEPT
       ![c] = [IdleCall EXCEPT !.pc = "asked", !.op = "get-provenance", !.arg = batchID,
                               !.result = GetProvenance(ledger, batchID, clock)]]
  /\ UNCHANGED <<ledger, file, microQ, clock, durable>>

\* the same caller awaits getProvenance for the same batch once more: held is the
\* bundle of its first call, result the bundle of the second
ReadAgain(c) ==
  /\ call[c].pc = "asked"
  /\ call' = [Live EXCEPT
       ![c] = [call[c] EXCEPT !.pc = "answered", !.held = call[c].result,
                              !.result = GetProvenance(ledger, call[c].arg, clock)]]
  /\ UNCHANGED <<ledger, file, microQ, clock, durable>>

\* ------------------------------------------------------------------- inputs
InRegion == [lat |-> 269124, lng |-> 757873]
OutOfRegion == [lat |-> 100000, lng |-> 100000]

CollectionInputs ==
  {[species |-> "Ashwagandha", gps |-> InRegion, month |-> 11],
   [species |-> "Ashwagandha", gps |-> OutOfRegion, month |-> 11]}

\* batch ids requests name: the batch collected at time 0, and one never collected
BatchIds == {BatchIdOf("Ashwagandha", 0), BatchIdOf("Tulsi", 0)}

KnownBatch == BatchIdOf("Ashwagandha", 0)
UnknownBatch == BatchIdOf("Tulsi", 0)

QualityInputs ==
  {[batchID |-> b, pesticide |-> 3, heavyMetals |-> 1, moisture |-> 1250] : b \in BatchIds}
  \cup {[batchID |-> KnownBatch, pesticide |-> 20, heavyMetals |-> 1, moisture |-> 1250],
        [batchID |-> KnownBatch, pesticide |-> 3, heavyMetals |-> 1, moisture |-> 600]}

Steps == {"drying", "grinding", "packaging"}
Statuses == {"in-progress", "completed"}

UpdateInputs ==
  {[batchID |-> KnownBatch, step |-> st, status |-> su] : st \in Steps, su \in Statuses}
  \cup {[batchID |-> UnknownBatch, step |-> "drying", status |-> "completed"]}

\* payloads a caller of submitTransaction passes in directly
DirectInputs ==
  {[type |-> "collection",
    data |-> [id |-> BatchIdOf("Ashwagandha", 0), species |-> "Ashwagandha",
              gps |-> InRegion, timestamp |-> [month |-> 11]]],
   [type |-> "collection",
    data |-> [id |-> BatchIdOf("Ashwagandha", 0), species |-> "Ashwagandha",
              gps |-> OutOfRegion, timestamp |-> [month |-> 11]]],
   [type |-> "quality_test",
    data |-> [batchID |-> BatchIdOf("Ashwagandha", 0), pesticide |-> 3,
              heavyMetals |-> 1, moisture |-> 1250, verified |-> TRUE,
              status |-> "PASSED", warnings |-> <<>>]],
   [type |-> "processing",
    data |-> [batchID |-> BatchIdOf("Ashwagandha", 0), drying |-> "completed",
              grinding |-> "completed", packaging |-> "completed", history |-> <<>>]],
   [type |-> "verification",
    data |-> [batchID |-> BatchIdOf("Ashwagandha", 0)]]}

\* the direct calls of the sequential runs: a quality test and a processing record
\* for the known batch (collections come through the farmer route)
SeqDirectInputs == {in \in DirectInputs : in.type \in {"quality_test", "processing"}}

\* the direct calls of the concurrent runs: the three types the validator has rules for
CoreInputs == {in \in DirectInputs : in.type # "verification"}

\* ------------------------------------------------------------ specifications
\* sequential use: every awaited operation ends before the next one starts, on
\* storage that may fail and in a process that may stop at any point
Quiescent ==
  /\ call[0].pc = "done"
  /\ \A c \in Calls : ~InFlight(c)

\* invocations are interchangeable: a new one takes the lowest slot not in use
Free(c) == c = Min({d \in Calls : ~InFlight(d)})

\* submitTransaction(type, data) called and awaited with no other call pending
SubmitAwaited(c, type, data) ==
  /\ HandlerReady(c)
  /\ HandlerSubmit(c, ledger, "submit", type, data, Own(FreshObj))
  /\ UNCHANGED <<file, microQ, clock, durable>>

Operation(c) ==
  \/ \E in \in SeqDirectInputs : SubmitAwaited(c, in.type, in.data)
  \/ \E in \in CollectionInputs : FarmerUpload(c, in)
  \/ \E v \in QualityInputs : LabUpload(c, v)
  \/ \E r \in UpdateInputs : UpdateStatus(c, r.batchID, r.step, r.status)
  \/ \E b \in BatchIds : GenerateQR(c, b)

NextSeq ==
  \/ Quiescent /\ HasRoom(SeqMaxLog) /\ Operation(1)
  \/ \E c \in Calls : GenerateQRSubmit(c)
  \/ \E w \in Writers : WriteOpen(w)
  \/ \E w \in Writers : WriteDone(w)
  \/ \E w \in Writers : WriteFail(w)
  \/ InitRead
  \/ Crash
  \/ Quiescent /\ Tick

SpecSeq == Init /\ [][NextSeq]_vars

TypeOK ==
  /\ clock \in 0 .. MaxClock
  /\ \A w \in Writers : call[w].pc \in
       {"idle", "read", "validating", "qr_io", "saving", "writing", "done", "committed",
        "failed", "asked", "answered"}

\* concurrent callers of an initialized service, on storage that works: no request
\* handlers, no restart, no failing write
NextCore ==
  \/ \E c \in Calls, in \in CoreInputs :
        /\ call[0].pc = "done"
        /\ ~InFlight(c) /\ Free(c) /\ HasRoom(CoreMaxLog)
        /\ SubmitStart(c, in.type, in.data)
  \/ \E c \in Calls : SubmitResume(c)
  \/ \E w \in Writers : WriteOpen(w)
  \/ \E w \in Writers : WriteDone(w)
  \/ InitRead
  \/ Tick

SpecCore == Init /\ [][NextCore]_vars

\* one collection submitted to a newly initialized service, on storage that works:
\* the species names, the corners of the geo-fence and the months of the year
\* the species names that contain 'ashwagandha' in some mix of cases
AshwagandhaNames == {"Ashwagandha", "ASHWAGANDHA", "Wild ashwagandha"}

RuleSpecies == {"Ashwagandha", "ASHWAGANDHA", "Wild ashwagandha", "Ashwagandh", "Tulsi"}

\* (10.0, 10.0), (0, 0), (26.9124, 75.7873), and both sides of each edge of the fence
RulePoints ==
  {OutOfRegion, [lat |-> 0, lng |-> 0], InRegion}
  \cup {[lat |-> la, lng |-> lo] : la \in {239999, 240000, 300000, 300001},
                                   lo \in {689999, 690000, 780000, 780001}}

Months == 1 .. 12

\* every Ashwagandha spelling at every point, the other names at four points, and
\* the two profiles in every month
RuleInputs ==
  {[species |-> sp, gps |-> g, month |-> 11] : sp \in AshwagandhaNames, g \in RulePoints}
  \cup {[species |-> sp, gps |-> g, month |-> 11] :
          sp \in RuleSpecies \ AshwagandhaNames,
          g \in {OutOfRegion, InRegion, [lat |-> 0, lng |-> 0], [lat |-> 300001, lng |-> 690000]}}
  \cup {[species |-> sp, gps |-> g, month |-> m] :
          sp \in {"Ashwagandha"}, g \in {InRegion, OutOfRegion}, m \in Months}
  \cup {[species |-> "Tulsi", gps |-> OutOfRegion, month |-> m] : m \in {2, 6}}

\* a direct caller's collection whose timestamp is no date
UndatedInputs ==
  {[id |-> BatchIdOf(sp, 0), species |-> sp, gps |-> g, timestamp |-> [text |-> "soon"]] :
     sp \in {"Ashwagandha", "Tulsi"}, g \in {InRegion, OutOfRegion}}

NextRules ==
  \/ Quiescent /\ HasRoom(RulesMaxLog) /\ \E in \in RuleInputs : FarmerUpload(1, in)
  \/ Quiescent /\ HasRoom(RulesMaxLog)
       /\ \E d \in UndatedInputs : SubmitAwaited(1, "collection", d)
  \/ \E w \in Writers : WriteOpen(w)
  \/ \E w \in Writers : WriteDone(w)
  \/ InitRead

SpecRules == Init /\ [][NextRules]_vars

\* the lab handler holding a validated request body, about to derive its status:
\* values on both sides of every threshold, heavyMetals given or left out
StatusInputs ==
  {[batchID |-> KnownBatch, pesticide |-> p, heavyMetals |-> h, moisture |-> m] :
     p \in {0, 3, 10, 11, 20}, h \in {0, 1, 5, 6},
     m \in {0, 499, 500, 799, 800, 1250, 2000, 2001, 2500, 2501}}
  \cup {[batchID |-> KnownBatch, pesticide |-> p, moisture |-> m] :
     p \in {0, 3, 10, 11, 20},
     m \in {0, 499, 500, 799, 800, 1250, 2000, 2001, 2500, 2501}}

InitStatus ==
  /\ ledger = <<>>
  /\ file = FileMissing
  /\ microQ = <<>>
  /\ clock = 0
  /\ durable = <<>>
  /\ \E v \in StatusInputs :
       call = [w \in Writers |->
                 IF w = 0 THEN StartingInit
                 ELSE IF w = 1 THEN [IdleCall EXCEPT !.op = "lab-upload", !.held = v]
                 ELSE IdleCall]

\* const testStatus = determineTestStatus(value) (part_001:97)
DetermineStep(c) ==
  /\ call[c].op = "lab-upload"
  /\ call[c].pc = "idle"
  /\ call' = [call EXCEPT ![c].pc = "done", ![c].result = DetermineTestStatus(call[c].held)]
  /\ UNCHANGED <<ledger, file, microQ, clock, durable>>

NextStatus == \E c \in Calls : DetermineStep(c)

SpecStatus == InitStatus /\ [][NextStatus]_vars

\* a batch whose quality test failed, on storage that works: direct callers record
\* the collection, a test marked failed or passed, and processing records; the
\* processor route updates the drying stage
GateInputs ==
  {[type |-> "collection",
    data |-> [id |-> KnownBatch, species |-> "Ashwagandha", gps |-> InRegion,
              timestamp |-> [month |-> 11]]],
   [type |-> "quality_test",
    data |-> [batchID |-> KnownBatch, pesticide |-> 3, heavyMetals |-> 1,
              moisture |-> 1250, verified |-> FALSE, status |-> "FAILED",
              warnings |-> <<>>]],
   [type |-> "quality_test",
    data |-> [batchID |-> KnownBatch, pesticide |-> 3, heavyMetals |-> 1,
              moisture |-> 1250, verified |-> TRUE, status |-> "PASSED",
              warnings |-> <<>>]],
   [type |-> "processing",
    data |-> [batchID |-> KnownBatch, drying |-> "in-progress", grinding |-> "pending",
              packaging |-> "pending", history |-> <<>>]]}

NextGate ==
  \/ Quiescent /\ HasRoom(GateMaxLog)
       /\ \E in \in GateInputs : SubmitAwaited(1, in.type, in.data)
  \/ Quiescent /\ HasRoom(GateMaxLog)
       /\ \E su \in Statuses : UpdateStatus(1, KnownBatch, "drying", su)
  \/ \E w \in Writers : WriteOpen(w)
  \/ \E w \in Writers : WriteDone(w)
  \/ InitRead

SpecGate == Init /\ [][NextGate]_vars

\* the life of one batch through the routes, on storage that works: one farmer
\* upload, one lab upload with passing values, then processor updates of any stage
\* to any status and QR generation, in any order and number
FlowOperation(c) ==
  \/ /\ ~Collected(ledger, KnownBatch)
     /\ FarmerUpload(c, [species |-> "Ashwagandha", gps |-> InRegion, month |-> 11])
  \/ /\ ~Recorded(ledger, KnownBatch, "quality_test")
     /\ LabUpload(c, [batchID |-> KnownBatch, pesticide |-> 3, heavyMetals |-> 1,
                      moisture |-> 1250])
  \/ \E st \in Steps, su \in Statuses : UpdateStatus(c, KnownBatch, st, su)
  \/ GenerateQR(c, KnownBatch)

NextFlow ==
  \/ Quiescent /\ HasRoom(FlowMaxLog) /\ FlowOperation(1)
  \/ \E c \in Calls : GenerateQRSubmit(c)
  \/ \E w \in Writers : WriteOpen(w)
  \/ \E w \in Writers : WriteDone(w)
  \/ InitRead

SpecFlow == Init /\ [][NextFlow]_vars

\* a caller that asks for the provenance of a batch twice while no request that
\* writes is started or resumed between its two calls; time may pass between them
NoneAsked == \A c \in Calls : call[c].pc # "asked"

NonePending == \A c \in Calls : call[c].pc \notin {"validating", "qr_io"}

NextRead ==
  \/ Quiescent /\ NoneAsked /\ HasRoom(ReadMaxLog) /\ Operation(1)
  \/ NoneAsked /\ \E c \in Calls : GenerateQRSubmit(c)
  \/ NonePending /\ NoneAsked /\ \E c \in Calls \ {1}, b \in BatchIds : ReadFirst(c, b)
  \/ \E c \in Calls : ReadAgain(c)
  \/ \E w \in Writers : WriteOpen(w)
  \/ \E w \in Writers : WriteDone(w)
  \/ InitRead
  \/ (Quiescent \/ ~NoneAsked) /\ Tick

SpecRead == Init /\ [][NextRead]_vars

\* callers that submit and callers that read, in any interleaving the promise-job
\* queue allows: a read may come between a submitTransaction call and its
\* continuation, and between the push and the end of the save
\* the direct calls of the mixed runs: a collection and a quality test for its batch
MixInputs ==
  {in \in CoreInputs :
     in.type = "quality_test" \/ (in.type = "collection" /\ in.data.gps = InRegion)}

\* the reader is the highest slot no submit call is using
Reader(c) == c = Max({d \in Calls : ~InFlight(d)})

NextMix ==
  \/ \E c \in Calls, in \in MixInputs :
        /\ call[0].pc = "done"
        /\ ~InFlight(c) /\ Free(c) /\ HasRoom(MixMaxLog)
        /\ SubmitStart(c, in.type, in.data)
  \/ \E c \in Calls : SubmitResume(c)
  \/ \E c \in Calls : ~InFlight(c) /\ Reader(c) /\ ReadFirst(c, KnownBatch)
  \/ \E w \in Writers : WriteOpen(w)
  \/ \E w \in Writers : WriteDone(w)
  \/ InitRead

SpecMix == Init /\ [][NextMix]_vars

\* the server takes requests from the moment it starts: initialize() is called and
\* not awaited (server.js:116), so awaited submitTransaction calls may run while it
\* waits for its file read or for the save of the genesis block; the process may stop
\* and start again on the file it left
NextStart ==
  \/ \E in \in MixInputs :
        /\ \A c \in Calls : ~InFlight(c)
        /\ HasRoom(StartMaxLog)
        /\ SubmitAwaited(1, in.type, in.data)
  \/ \E w \in Writers : WriteOpen(w)
  \/ \E w \in Writers : WriteDone(w)
  \/ InitRead
  \/ Crash

SpecStart == Init /\ [][NextStart]_vars

\* direct callers of an initialized service that pass any type string: the three
\* types with a validator, the 'verification' type the source names, the type of the
\* genesis block, and a type nothing knows
TypeInputs ==
  {in \in DirectInputs : in.type \in {"quality_test", "verification"}}
  \cup {[type |-> "collection",
         data |-> [id |-> KnownBatch, species |-> "Ashwagandha", gps |-> InRegion,
                   timestamp |-> [month |-> 11]]],
        [type |-> "processing",
         data |-> [batchID |-> KnownBatch, drying |-> "completed", grinding |-> "pending",
                   packaging |-> "pending", history |-> <<>>]],
        [type |-> "genesis",
         data |-> [message |-> "SIH25027 Traceability Chain Genesis Block", created |-> 0]],
        [type |-> "audit", data |-> [batchID |-> KnownBatch]]}

NextTypes ==
  \/ \E in \in TypeInputs :
        Quiescent /\ HasRoom(TypesMaxLog) /\ SubmitAwaited(1, in.type, in.data)
  \/ \E w \in Writers : WriteOpen(w)
  \/ \E w \in Writers : WriteDone(w)
  \/ InitRead

SpecTypes == Init /\ [][NextTypes]_vars

\* the lab route on a collected batch, on storage that works: request bodies with
\* values on both sides of every limit of the validator and of the status rule
LabInputs ==
  {v \in StatusInputs :
     /\ v.pesticide \in {3, 10, 11}
     /\ v.moisture \in {499, 500, 799, 800, 2000, 2001, 2500, 2501}}

NextLab ==
  \/ /\ Quiescent /\ HasRoom(LabMaxLog)
     /\ FarmerUpload(1, [species |-> "Ashwagandha", gps |-> InRegion, month |-> 11])
  \/ \E v \in LabInputs : Quiescent /\ HasRoom(LabMaxLog) /\ LabUpload(1, v)
  \/ \E w \in Writers : WriteOpen(w)
  \/ \E w \in Writers : WriteDone(w)
  \/ InitRead

SpecLab == Init /\ [][NextLab]_vars

\* one collection form judged by both services: every species name at every point
\* in every month, and with a timestamp that is no date
FenceInputs ==
  {[species |-> sp, gps |-> g, timestamp |-> t] :
     sp \in RuleSpecies, g \in RulePoints,
     t \in {[month |-> m] : m \in Months} \cup {[text |-> "soon"]}}

InitFence ==
  /\ ledger = <<>>
  /\ file = FileMissing
  /\ microQ = <<>>
  /\ clock = 0
  /\ durable = <<>>
  /\ \E in \in FenceInputs :
       call = [w \in Writers |->
                 IF w = 0 THEN StartingInit
                 ELSE IF w = 1 THEN [IdleCall EXCEPT !.op = "validate", !.held = in]
                 ELSE IdleCall]

\* the frontend's two checks (FarmerDashboard.tsx:92-93) and the backend validator
\* applied to the same form
JudgeStep(c) ==
  /\ call[c].op = "validate"
  /\ call[c].pc = "idle"
  /\ call' = [call EXCEPT
       ![c].pc = "done",
       ![c].result =
         [location |-> ValidateGeoFence(call[c].held.gps, call[c].held.species),
          season |-> ValidateSeason(call[c].held.timestamp, call[c].held.species),
          backend |-> ValidateCollectionEvent(call[c].held)]]
  /\ UNCHANGED <<ledger, file, microQ, clock, durable>>

NextFence == \E c \in Calls : JudgeStep(c)

SpecFence == InitFence /\ [][NextFence]_vars

\* the routes that add to a batch, one request at a time, and a customer who reads
\* a bundle between them
NextCount ==
  \/ /\ Quiescent
     /\ HasRoom(CountMaxLog)
     /\ \/ \E in \in CollectionInputs : FarmerUpload(1, in)
        \/ \E v \in QualityInputs : LabUpload(1, v)
        \/ \E r \in UpdateInputs : UpdateStatus(1, r.batchID, r.step, r.status)
  \/ Quiescent /\ \E b \in BatchIds : ReadFirst(2, b)
  \/ \E w \in Writers : WriteOpen(w)
  \/ \E w \in Writers : WriteDone(w)
  \/ InitRead

SpecCount == Init /\ [][NextCount]_vars

\* the frontend service: components submit while other components' submissions
\* are still waiting for their promise to resolve
SimInputs == {in \in DirectInputs : in.type # "verification"}

InitSim ==
  /\ ledger = InitializeSampleData
  /\ file = FileMissing
  /\ call = [w \in Writers |-> IdleCall]
  /\ microQ = <<>>
  /\ clock = 0
  /\ durable = <<>>

\* a component calls submitTransaction(type, data) and awaits the promise: the
\* body runs to its return, the caller's continuation is queued
SimSubmit(c, type, data) ==
  /\ call[c].pc # "returned"
  /\ Len(ledger) < SimMaxLog
  /\ ledger' = SimSubmitted(ledger, type, data, clock, FreshRnd)
  /\ call' = [Live EXCEPT
       ![c] = [IdleCall EXCEPT
                 !.pc = "returned", !.op = "submit", !.pos = Len(ledger) + 1,
                 !.tx = SimTransaction(ledger, type, data, clock, FreshRnd)]]
  /\ microQ' = Enqueue(microQ, c)
  /\ UNCHANGED <<file, clock, durable>>

\* the awaiting component resumes with the transaction id
SimResume(c) ==
  /\ microQ # <<>>
  /\ c = Head(microQ)
  /\ call[c].pc = "returned"
  /\ call' = [Live EXCEPT
       ![c] = Ended(call[c], "committed",
                    [status |-> "RETURNED", transactionId |-> call[c].tx.id])]
  /\ microQ' = Tail(microQ)
  /\ UNCHANGED <<ledger, file, clock, durable>>

NextSim ==
  \/ \E c \in Calls, in \in SimInputs : SimSubmit(c, in.type, in.data)
  \/ \E c \in Calls : SimResume(c)
  \/ Tick

SpecSim == InitSim /\ [][NextSim]_vars

\* ------------------------------------------------------------------ properties
IsPrefix(s, t) == Len(s) <= Len(t) /\ \A i \in 1 .. Len(s) : s[i] = t[i]

Chained(log) == \A i \in 2 .. Len(log) : log[i].previousHash = log[i - 1].hash

\* C1: with submitTransaction calls issued one at a time on an initialized ledger,
\* every transaction after the first has previousHash equal to the hash field of
\* the transaction just before it.
C1_HashChainSequential == Chained(ledger)

C1_Witness ==
  \E c \in Calls :
    /\ call[c].pc = "committed"
    /\ call[c].op = "submit"
    /\ call[c].pos >= 3
    /\ Len(ledger) >= 3

\* C2: when valid submitTransaction calls overlap, then once all of them have
\* resumed the log is one valid chain and no two entries carry the same previousHash.
C2_ConcurrentSingleChain ==
  microQ = <<>> =>
    /\ Chained(ledger)
    /\ \A i, j \in 1 .. Len(ledger) :
         i # j => ledger[i].previousHash # ledger[j].previousHash

\* C3: a submitTransaction call whose validation fails is decided by the validator
\* on the log as it is when the call starts, ends with an error that carries the
\* validator's reason, and neither its start nor its end changes the in-memory log
\* or the ledger file.
C3_ValidationFailureChangesNothing ==
  [][\A c \in Calls :
       /\ (call[c].pc # "validating" /\ call'[c].pc = "validating") =>
            /\ call'[c].valid =
                 ValidateTransaction(ledger, call'[c].tx.type, call'[c].tx.data).valid
            /\ call'[c].reason =
                 ValidateTransaction(ledger, call'[c].tx.type, call'[c].tx.data).reason
            /\ ledger' = ledger
            /\ file' = file
       /\ (call[c].pc = "validating" /\ ~call[c].valid /\ call'[c].pc # "validating") =>
            /\ call'[c].pc = "failed"
            /\ call'[c].result = Failure("validation", Msg(call[c].reason))
            /\ ledger' = ledger
            /\ file' = file]_vars

C3_Witness ==
  \E c \in Calls :
    /\ call[c].pc = "failed"
    /\ call[c].result = Failure("validation",
                                Msg("Cannot process batch without quality verification"))
    /\ Len(ledger) >= 2

\* C4: a submitTransaction call that passes validation appends its transaction, and
\* nothing else, at the end of the log, appends nothing more afterwards, and when it
\* returns COMMITTED the transactionId and hash it returns are the id and hash of
\* the transaction it appended.
C4_SuccessAppendsOneAndReportsIt ==
  [][\A c \in Calls :
       /\ (call[c].pc = "validating" /\ call[c].valid /\ call'[c].pc # "validating") =>
            /\ ledger' = Append(ledger, call[c].tx)
            /\ call'[c].pc = "saving"
            /\ call'[c].pos = Len(ledger')
       /\ (call[c].pc \in {"saving", "writing"} /\ call'[c] # call[c]) =>
            ledger' = ledger
       /\ (call[c].pc # "committed" /\ call'[c].pc = "committed") =>
            /\ call'[c].pos \in 1 .. Len(ledger')
            /\ call'[c].result.status = "COMMITTED"
            /\ call'[c].result.transactionId = ledger'[call'[c].pos].id
            /\ call'[c].result.hash = ledger'[call'[c].pos].hash]_vars

C4_Witness ==
  \E c \in Calls :
    /\ call[c].pc = "committed"
    /\ call[c].pos = 3
    /\ \E d \in Calls : d # c /\ call[d].pc \in {"saving", "writing"}

\* C5: while the service stays initialized, a log whose transactions are all
\* committed to the ledger file is a prefix of the log after any step, compared by
\* content: no committed transaction changes position, payload or hash, or goes.
C5_AppendOnly ==
  [][(call[0].pc = "done" /\ call'[0].pc = "done" /\ file = FileOf(Stringify(ledger))) =>
       IsPrefix(Stringify(ledger), Stringify(ledger'))]_vars

\* C6: when the write of the ledger file fails during submitTransaction, the
\* transaction whose save failed is not in the in-memory log, and the in-memory log
\* equals the log in the file.
C6_FailedSaveLeavesNoTrace ==
  \A c \in Calls :
    (call[c].pc = "failed" /\ call[c].result.code = "storage") =>
      /\ Len(ledger) < call[c].pos
      /\ file.state = "ok" => file.txs = Stringify(ledger)

\* C7: when a submitTransaction call returns COMMITTED, a ledger file that can be
\* read holds its transaction, and when no submit is in flight such a file holds
\* the in-memory log, also when several submits were in flight at once.
C7_DurableUnderOverlap ==
  /\ \A c \in Calls :
       (call[c].pc = "committed" /\ file.state = "ok") =>
         \E i \in 1 .. Len(file.txs) : file.txs[i].id = call[c].result.transactionId
  /\ (call[0].pc = "done" /\ file.state = "ok" /\ \A c \in Calls : ~InFlight(c)) =>
       file.txs = Stringify(ledger)

\* C8: when initialize() completes, every transaction that a completed save had
\* written to the ledger file is still in the log, at its position and with its id
\* and hash, whatever state a stopped process left the file in.
C8_RestartKeepsCommitted ==
  [][(call[0].pc # "done" /\ call'[0].pc = "done") =>
       \A i \in 1 .. Len(durable) :
         /\ i <= Len(ledger')
         /\ ledger'[i].id = durable[i].id
         /\ ledger'[i].hash = durable[i].hash]_vars

\* C9: when a submitTransaction call has returned COMMITTED, a fresh service that
\* runs initialize() on the ledger file gets a log identical in content and order to
\* the in-memory log, with no extra genesis entry.
C9_RoundTrip ==
  \A c \in Calls :
    call[c].pc = "committed" =>
      Stringify(InitializedLedger(<<>>, file, clock, 1)) = Stringify(ledger)

C9_Witness ==
  \E c \in Calls :
    /\ call[c].pc = "committed"
    /\ call[c].op = "update-status"
    /\ Len(ledger) >= 4
    /\ file = FileOf(Stringify(ledger))

\* C10: when initialize() completes after finding no readable ledger file, the log
\* is exactly one transaction of type genesis with id tx_genesis_000, the hash of
\* the fixed text genesis_block_sih25027, and the all-zero previousHash, and the
\* ledger file holds this one-entry log.
C10_GenesisOnStartup ==
  [][(call[0].pc = "writing" /\ call'[0].pc = "done") =>
       /\ Len(ledger') = 1
       /\ ledger'[1].id = GenesisTxId
       /\ ledger'[1].type = "genesis"
       /\ ledger'[1].hash = CalculateHash([text |-> "genesis_block_sih25027"])
       /\ ledger'[1].previousHash = ZeroHash
       /\ file' = FileOf(Stringify(ledger'))]_vars

C10_Witness ==
  /\ call[0].pc = "done"
  /\ clock = 0
  /\ Len(ledger) = 1
  /\ ledger[1].type = "genesis"
  /\ file = FileOf(Stringify(ledger))
  /\ durable = Stringify(ledger)

InFence(gps) ==
  gps.lat >= 240000 /\ gps.lat <= 300000 /\ gps.lng >= 690000 /\ gps.lng <= 780000

\* a handler turn of call c that ran submitTransaction for operation op
Handled(c, op) ==
  /\ call[c].pc \notin {"saving", "writing"}
  /\ call'[c].op = op
  /\ call'[c].pc \in {"saving", "failed"}

\* the transaction call c built was appended and is being saved
Accepted(c) ==
  /\ call'[c].pc = "saving"
  /\ ledger' = Append(ledger, call'[c].tx)

\* call c ended with the geo-fence error and nothing was appended
RejectedForRegion(c) ==
  /\ call'[c].pc = "failed"
  /\ call'[c].result =
       Failure("validation",
               Msg("GPS coordinates outside valid cultivation region for Ashwagandha"))
  /\ ledger' = ledger
  /\ file' = file

\* C11: a collection whose species name contains 'ashwagandha' in any mix of cases
\* is accepted when 24.0 <= lat <= 30.0 and 69.0 <= lng <= 78.0, bounds included,
\* and otherwise rejected with the region error and nothing appended; a collection
\* of another species is accepted wherever it was made.
C11_GeoFenceIsFatal ==
  [][\A c \in Calls :
       (Handled(c, "farmer-upload") /\ call'[c].tx.type = "collection") =>
         IF call'[c].tx.data.species \in AshwagandhaNames /\ ~InFence(call'[c].tx.data.gps)
         THEN RejectedForRegion(c)
         ELSE Accepted(c)]_vars

C11_Witness ==
  /\ call[1].pc = "committed"
  /\ Len(ledger) = 2
  /\ ledger[2].data.species = "ASHWAGANDHA"
  /\ ledger[2].data.gps = [lat |-> 300000, lng |-> 690000]

\* C12: for every harvest month 1..12 a collection that passes the geo-fence is
\* accepted with its timestamp, also in months 3..9 for Ashwagandha, and one that
\* fails the geo-fence is rejected for its region whatever the month; a timestamp
\* that is no date is treated the same way.
C12_SeasonIsAdvisory ==
  [][\A c \in Calls, op \in {"farmer-upload", "submit"} :
       (/\ Handled(c, op)
        /\ call'[c].tx.type = "collection"
        /\ call'[c].tx.data.timestamp \in
             {[month |-> m] : m \in Months} \cup {[text |-> "soon"]}) =>
         /\ (call'[c].tx.data.species \in AshwagandhaNames => InFence(call'[c].tx.data.gps))
              => Accepted(c)
         /\ ~(call'[c].tx.data.species \in AshwagandhaNames => InFence(call'[c].tx.data.gps))
              => RejectedForRegion(c)]_vars

C12_Witness ==
  /\ call[1].pc = "committed"
  /\ Len(ledger) = 2
  /\ ledger[2].data.species = "Ashwagandha"
  /\ ledger[2].data.timestamp = [month |-> 6]

\* C13: every quality_test transaction in the log comes after a collection
\* transaction whose id is its batchID: a quality test for a batch that was never
\* collected is not appended.
C13_QualityTestNeedsCollection ==
  \A i \in 1 .. Len(ledger) :
    ledger[i].type = "quality_test" =>
      \E j \in 1 .. i - 1 :
        ledger[j].type = "collection" /\ PropIs(ledger[j].data, "id", ledger[i].data.batchID)

C15_OutOfRangeIsRecorded ==
  [][\A c \in Calls :
       (/\ Handled(c, "lab-upload")
        /\ call'[c].tx.type = "quality_test"
        /\ call'[c].tx.data.status \in {"FAILED", "PASSED_WITH_WARNINGS"}) =>
         Accepted(c)]_vars

\* some quality_test transaction for batchID is among the first n entries of log
TestedWithin(log, n, batchID) ==
  \E j \in 1 .. n : log[j].type = "quality_test" /\ PropIs(log[j].data, "batchID", batchID)

\* C16: every processing transaction in the log has a quality_test transaction with
\* its batchID at a lower position, and a call that built a processing transaction
\* for a batch with no quality_test in the log ends with the validation error and
\* appends nothing.
C16_ProcessingNeedsQualityTest ==
  /\ [](\A i \in 1 .. Len(ledger) :
          ledger[i].type = "processing" =>
            TestedWithin(ledger, i - 1, ledger[i].data.batchID))
  /\ [][\A c \in Calls, op \in {"submit", "update-status", "generate-qr"} :
          (/\ Handled(c, op)
           /\ call'[c].tx.type = "processing"
           /\ ~TestedWithin(ledger, Len(ledger), call'[c].tx.data.batchID)) =>
            /\ call'[c].pc = "failed"
            /\ call'[c].result =
                 Failure("validation",
                         Msg("Cannot process batch without quality verification"))
            /\ ledger' = ledger
            /\ file' = file]_vars

C16_Witness ==
  \E c \in Calls :
    /\ call[c].pc = "failed"
    /\ call[c].tx.type = "processing"
    /\ call[c].result.code = "validation"
    /\ Len(ledger) >= 2
    /\ ledger[2].type = "collection"

\* the quality tests recorded for batchID among the first n entries of log
TestsWithin(log, n, batchID) ==
  {j \in 1 .. n : log[j].type = "quality_test" /\ PropIs(log[j].data, "batchID", batchID)}

\* C17: no processing transaction is appended for a batch all of whose recorded
\* quality tests are failed (verified = false).
C17_FailedTestStopsProcessing ==
  \A i \in 1 .. Len(ledger) :
    ledger[i].type = "processing" =>
      \E j \in TestsWithin(ledger, i - 1, ledger[i].data.batchID) :
        PropIs(ledger[j].data, "verified", TRUE)

\* the position of the last transaction of a type for batchID in log, 0 if none
LastIdx(log, batchID, type) ==
  IF \E i \in MatchingIdx(log, batchID) : log[i].type = type
  THEN CHOOSE i \in MatchingIdx(log, batchID) :
         /\ log[i].type = type
         /\ \A j \in MatchingIdx(log, batchID) : log[j].type = type => j <= i
  ELSE 0

\* the state of a stage of batchID according to its latest processing transaction
StageOf(log, batchID, step) ==
  IF LastIdx(log, batchID, "processing") = 0 THEN "pending"
  ELSE IF Has(log[LastIdx(log, batchID, "processing")].data, step)
  THEN log[LastIdx(log, batchID, "processing")].data[step]
  ELSE "pending"

\* the stage that must be completed first: drying before grinding before packaging
StageBefore(step) ==
  IF step = "grinding" THEN "drying" ELSE IF step = "packaging" THEN "grinding" ELSE "none"

C19_NotFoundWithoutCollection ==
  \A b \in BatchIds :
    /\ GetProvenance(ledger, b, clock) = Null
         <=> ~\E i \in 1 .. Len(ledger) :
                ledger[i].type = "collection" /\ PropIs(ledger[i].data, "id", b)
    /\ GetProvenance(ledger, b, clock) # Null =>
         GetProvenance(ledger, b, clock).farmer # Null

\* C20: the bundle getProvenance returns holds, for quality_test and for processing,
\* the payload of the most recently appended transaction of that type for the batch.
C20_BundleHoldsLatest ==
  \A b \in BatchIds :
    GetProvenance(ledger, b, clock) # Null =>
      /\ GetProvenance(ledger, b, clock).lab =
           DataAt(ledger, LastIdx(ledger, b, "quality_test"))
      /\ GetProvenance(ledger, b, clock).processor =
           DataAt(ledger, LastIdx(ledger, b, "processing"))

\* C21: for every batch with a collection transaction, the bundle's isVerified is
\* true exactly when the log holds a quality_test and a processing transaction for
\* the batch, whether the test passed or failed and whatever the stages' statuses.
C21_VerifiedIffTestedAndProcessed ==
  \A b \in BatchIds :
    Collected(ledger, b) =>
      (GetProvenance(ledger, b, clock).isVerified
         <=> (Recorded(ledger, b, "quality_test") /\ Recorded(ledger, b, "processing")))

C21_Witness ==
  /\ Collected(ledger, KnownBatch)
  /\ GetProvenance(ledger, KnownBatch, clock).isVerified
  /\ GetProvenance(ledger, KnownBatch, clock).lab.verified = FALSE
  /\ GetProvenance(ledger, KnownBatch, clock).processor.drying = "in-progress"

\* C22: a caller that calls getProvenance twice for one batch, with no write between
\* the two calls, gets two bundles equal in every field, and neither call changes
\* the log or the ledger file.
C22_RepeatedReadSameBundle ==
  /\ [](\A c \in Calls : call[c].pc = "answered" => call[c].result = call[c].held)
  /\ [][\A c \in Calls :
          (call'[c].op = "get-provenance" /\ call'[c] # call[c]) =>
            (ledger' = ledger /\ file' = file)]_vars

\* the state of a batch as read from its bundle
BatchState(prov) ==
  IF prov = Null \/ prov.farmer = Null THEN "NONE"
  ELSE IF prov.processor # Null /\ Has(prov.processor, "qrCode") THEN "QR_ISSUED"
  ELSE IF IsProcessingComplete(prov.processor) THEN "COMPLETE"
  ELSE IF prov.processor # Null THEN "PROCESSING"
  ELSE IF prov.lab # Null THEN "TESTED"
  ELSE "NEW"

Rank(state) ==
  CASE state = "NONE" -> 0
    [] state = "NEW" -> 1
    [] state = "TESTED" -> 2
    [] state = "PROCESSING" -> 3
    [] state = "COMPLETE" -> 4
    [] state = "QR_ISSUED" -> 5

\* C23: the state of a batch read from getProvenance (NEW, TESTED, PROCESSING,
\* COMPLETE, QR_ISSUED) never moves to an earlier state, whatever lab upload,
\* update-status or generate-qr request is accepted.
C23_BatchStateMonotonic ==
  [][\A b \in BatchIds :
       Rank(BatchState(GetProvenance(ledger', b, clock')))
         >= Rank(BatchState(GetProvenance(ledger, b, clock)))]_vars

\* C24: once the full flow of a batch has run (collection, passing lab test, the
\* three stages completed, QR generation committed), the customer batch query
\* reports the status 'Fully Verified' and a processing record with its QR reference.
C24_FullFlowFullyVerified ==
  \A c \in Calls :
    (call[c].op = "generate-qr" /\ call[c].pc = "committed") =>
      /\ CustomerBatch(ledger, KnownBatch, clock).verification.status = "Fully Verified"
      /\ CustomerBatch(ledger, KnownBatch, clock).processing.qrCode # Undefined

\* C25: no two collection transactions in the log carry the same payload id, also
\* when two collections of one species are submitted at the same clock value.
C25_BatchIdCreatedOnce ==
  \A i, j \in 1 .. Len(ledger) :
    (i # j /\ ledger[i].type = "collection" /\ ledger[j].type = "collection") =>
      ledger[i].data.id # ledger[j].data.id

\* a comes before b in queue q
Ahead(q, a, b) ==
  \E i, j \in 1 .. Len(q) : i < j /\ q[i] = a /\ q[j] = b

\* C26: transactions are appended in the order their submitTransaction calls were
\* invoked, also when calls overlap: a call that is invoked waits behind every call
\* invoked before it that has not appended yet, the call that appends is the one
\* invoked first among the waiting calls, and it appends after every transaction
\* already in the log.
C26_SubmissionOrder ==
  [][\A c \in Calls :
       /\ (call[c].pc # "validating" /\ call'[c].pc = "validating") =>
            \A d \in Calls \ {c} : call[d].pc = "validating" => Ahead(microQ', d, c)
       /\ (call[c].pc = "validating" /\ call'[c].pc = "saving") =>
            /\ \A d \in Calls \ {c} : call[d].pc = "validating" => Ahead(microQ, c, d)
            /\ call'[c].pos = Len(ledger) + 1
            /\ IsPrefix(ledger, ledger')
            /\ ledger'[call'[c].pos].id = call[c].tx.id]_vars

C26_Witness ==
  \E c, d \in Calls :
    /\ call[c].pc \in {"saving", "writing"}
    /\ call[d].pc \in {"saving", "writing"}
    /\ call[c].tx.previousHash = call[d].tx.previousHash
    /\ call[c].tx.type # call[d].tx.type
    /\ call[c].pos + 1 = call[d].pos

\* C27: along the log the timestamps never decrease, the genesis entry and the
\* transactions of overlapping calls included.
C27_TimestampsNonDecreasing ==
  \A i \in 2 .. Len(ledger) : ledger[i].timestamp >= ledger[i - 1].timestamp

C27_Witness ==
  \E c, d \in Calls :
    /\ call[c].pc \in {"saving", "writing"}
    /\ call[d].pc \in {"saving", "writing"}
    /\ call[c].tx.previousHash = call[d].tx.previousHash
    /\ call[c].tx.timestamp < call[d].tx.timestamp
    /\ ledger[1].type = "genesis"
    /\ ledger[1].timestamp = 0

\* C28: whenever getProvenance runs while submitTransaction calls are under way, the
\* log it reads holds, of each such call, either no entry or the whole transaction
\* the call built (id, type, data, timestamp, hash and previousHash as built), at
\* one position, and nothing of a call that has not resumed; the bundle is computed
\* from that log.
C28_ReadsSeeWholeEntries ==
  [][\A c \in Calls :
       (call'[c].op = "get-provenance" /\ call'[c] # call[c]) =>
         /\ call'[c].result = GetProvenance(ledger, call'[c].arg, clock)
         /\ \A d \in Calls :
              call[d].pc \in {"validating", "saving", "writing"} =>
                LET at == {i \in 1 .. Len(ledger) : ledger[i].id = call[d].tx.id}
                IN /\ call[d].pc = "validating" => at = {}
                   /\ call[d].pc # "validating" =>
                        /\ at = {call[d].pos}
                        /\ StringifyTx(ledger[call[d].pos]) = StringifyTx(call[d].tx)
                        /\ ledger[call[d].pos].hash =
                             CalculateHash([json |-> call[d].tx.data,
                                            suffix |-> call[d].tx.id])]_vars

C28_Witness ==
  \E c, d \in Calls :
    /\ call[c].pc = "asked"
    /\ call[c].arg = KnownBatch
    /\ call[d].pc \in {"saving", "writing"}
    /\ call[d].tx.type = "quality_test"
    /\ call[c].result # Null
    /\ call[c].result.lab = call[d].tx.data

\* C29: every transaction in the log other than the genesis entry has a hash equal
\* to the digest of the payload it holds now together with its id, also an earlier
\* processing transaction after later update-status calls for the same batch.
C29_HashMatchesPayload ==
  \A i \in 1 .. Len(ledger) :
    ledger[i].type # "genesis" =>
      ledger[i].hash = CalculateHash([json |-> ledger[i].data, suffix |-> ledger[i].id])

\* a stage that has been started or finished
Begun(d, step) == Has(d, step) /\ d[step] \in {"in-progress", "completed"}

\* C30: in every processing record the update-status route has written, grinding
\* in progress or completed implies drying completed, and packaging in progress or
\* completed implies grinding completed, whatever updates were accepted before.
C30_StageOrderInvariant ==
  \A i \in 1 .. Len(ledger) :
    ledger[i].type = "processing" =>
      /\ Begun(ledger[i].data, "grinding") => PropIs(ledger[i].data, "drying", "completed")
      /\ Begun(ledger[i].data, "packaging") => PropIs(ledger[i].data, "grinding", "completed")

\* a record whose three stages are all completed
StagesDone(d) ==
  /\ d # Null
  /\ \A st \in Steps : Has(d, st) /\ d[st] = "completed"

\* C31: a generate-qr request goes on to its QR file, and then appends a processing
\* transaction carrying a QR reference, only when the processing record
\* getProvenance returns for the batch has drying, grinding and packaging completed;
\* for an unknown batch, a batch without processing record or with a stage not
\* completed it is answered with an error and log and file stay as they are; no
\* other request appends a transaction with a QR reference.
C31_QRIssuanceGuard ==
  [][/\ \A c \in Calls :
          /\ (/\ call[c].pc \notin {"qr_io", "saving", "writing"}
              /\ call'[c] # call[c]
              /\ call'[c].op = "generate-qr") =>
               /\ call'[c].pc \in {"qr_io", "failed"}
               /\ ledger' = ledger
               /\ file' = file
               /\ call'[c].pc = "qr_io" <=>
                    /\ GetProvenance(ledger, KnownBatch, clock) # Null
                    /\ StagesDone(GetProvenance(ledger, KnownBatch, clock).processor)
               /\ call'[c].pc = "failed" =>
                    call'[c].result.code =
                      (IF GetProvenance(ledger, KnownBatch, clock) = Null
                       THEN "404" ELSE "400")
          /\ (call[c].pc = "qr_io" /\ call'[c] # call[c]) =>
               /\ call'[c].pc = "saving"
               /\ ledger' = Append(ledger, call'[c].tx)
               /\ call'[c].tx.type = "processing"
               /\ Has(call'[c].tx.data, "qrCode")
               /\ StagesDone(call'[c].tx.data)
               /\ StagesDone(GetProvenance(ledger, KnownBatch, clock).processor)
     /\ (/\ Len(ledger') > Len(ledger)
         /\ Has(ledger'[Len(ledger')].data, "qrCode")) =>
          \E c \in Calls : call[c].pc = "qr_io" /\ call'[c].pc = "saving"]_vars

C31_Witness ==
  \E c \in Calls :
    /\ call[c].op = "generate-qr"
    /\ call[c].pc = "committed"
    /\ Has(ledger[Len(ledger)].data, "qrCode")
    /\ StagesDone(ledger[Len(ledger)].data)

\* C32: whenever initialize() completes, also when submitTransaction calls ran while
\* it was suspended, the genesis transaction is the first entry of the log, the hash
\* chain holds, and every transaction then reported COMMITTED is in the log.
C32_StartupRace ==
  [][(call[0].pc # "done" /\ call'[0].pc = "done") =>
       /\ Len(ledger') >= 1
       /\ ledger'[1].type = "genesis"
       /\ Chained(ledger')
       /\ \A c \in Calls :
            call[c].pc = "committed" =>
              \E i \in 1 .. Len(ledger') : ledger'[i].id = call[c].result.transactionId]_vars

\* C33: every transaction in the log of an initialized service has one of the types
\* collection, quality_test, processing and genesis, and exactly one of them is a
\* genesis transaction: a submitTransaction with another type, or with the type
\* genesis, appends nothing.
C33_KnownTypesOneGenesis ==
  call[0].pc = "done" =>
    /\ \A i \in 1 .. Len(ledger) :
         ledger[i].type \in {"collection", "quality_test", "processing", "genesis"}
    /\ Cardinality({i \in 1 .. Len(ledger) : ledger[i].type = "genesis"}) = 1

C35_ServicesAgreeOnGeoFence ==
  \A c \in Calls :
    (call[c].op = "validate" /\ call[c].pc = "done") =>
      LET in == call[c].held
          r == call[c].result
          rejectedForLocation ==
            /\ ~r.backend.valid
            /\ r.backend.reason =
                 "GPS coordinates outside valid cultivation region for Ashwagandha"
          inSeason == Has(in.timestamp, "month") /\ in.timestamp.month \in {10, 11, 12, 1, 2}
      IN /\ r.location <=> ~rejectedForLocation
         /\ r.location <=> r.backend.valid
         /\ r.season <=> (in.species \in AshwagandhaNames => inSeason)
         /\ r.location <=> (in.species \in AshwagandhaNames => InFence(in.gps))

C35_Witness ==
  /\ call[1].op = "validate"
  /\ call[1].pc = "done"
  /\ call[1].held.species = "ASHWAGANDHA"
  /\ call[1].held.timestamp = [month |-> 6]
  /\ call[1].held.gps = [lat |-> 240000, lng |-> 780000]
  /\ call[1].result.location
  /\ ~call[1].result.season
  /\ call[1].result.backend.valid

\* C36: in the frontend service, after any sequence of submitTransaction calls,
\* overlapping or not, every entry after the first has previousHash equal to the
\* hash of the entry before it and the first entry has previousHash '0x000'; every
\* submission is appended, whatever its payload.
C36_FrontendChain ==
  /\ Chained(ledger)
  /\ Len(ledger) > 0
  /\ ledger[1].previousHash = [literal |-> "0x000"]
  /\ \A c \in Calls :
       call[c].pc = "returned" =>
         /\ call[c].pos \in 1 .. Len(ledger)
         /\ ledger[call[c].pos] = call[c].tx
  /\ Cardinality({c \in Calls : call[c].pc = "returned"}) = Len(microQ)

\* two submissions both waiting for their promise, one of them a collection outside
\* the species' region
C36_Witness ==
  /\ Len(ledger) = 5
  /\ Len(microQ) = 2
  /\ call[1].pc = "returned"
  /\ call[2].pc = "returned"
  /\ \E i \in 4 .. 5 :
       /\ ledger[i].type = "collection"
       /\ ~ValidateCollectionEvent(ledger[i].data).valid
  /\ ledger[4].hash # ledger[5].hash

\* the entries of log that belong to batchID: collections by payload id, every
\* other entry by payload batchID
EntriesOf(log, batchID) ==
  {i \in 1 .. Len(log) :
     \/ log[i].type = "collection" /\ PropIs(log[i].data, "id", batchID)
     \/ log[i].type # "collection" /\ PropIs(log[i].data, "batchID", batchID)}

\* C37: the transactionCount of a bundle returned by getProvenance is the number of
\* log entries that are a collection with payload id batchId or a non-collection
\* entry with payload batchID batchId, every quality_test and processing entry
\* counted and not only the ones the bundle shows.
C37_TransactionCountCountsAll ==
  [][\A c \in Calls :
       (/\ call'[c] # call[c]
        /\ call'[c].op = "get-provenance"
        /\ call'[c].pc \in {"asked", "answered"}
        /\ call'[c].result # Null)
       => call'[c].result.transactionCount
            = Cardinality(EntriesOf(ledger', call'[c].arg))]_vars

\* a read of a batch with two quality tests on record: three entries counted, two shown
C37_Witness ==
  \E c \in Calls :
    /\ call[c].op = "get-provenance"
    /\ call[c].pc = "asked"
    /\ call[c].result # Null
    /\ call[c].result.transactionCount = 3
    /\ call[c].result.processor = Null
    /\ Cardinality({i \in EntriesOf(ledger, call[c].arg) :
                      ledger[i].type = "quality_test"}) = 2

====
